---- MODULE Spec2Model ----
(***************************************************************************)
(* A model of src/app.py: the directory scan (read_files), the ordering of *)
(* the scanned paths (sorted over pathlib paths), the rendering of one     *)
(* card per file (WebFile.generate_html) and the page build (index).       *)
(*                                                                         *)
(* Text is a sequence of one-character strings; a markup literal of the    *)
(* source is one string token.  A pathlib path is the sequence of its      *)
(* components, a component is a sequence of characters.                    *)
(***************************************************************************)
EXTENDS Naturals, Sequences, FiniteSets, TLC

VARIABLES fs, recursive, pc, stack, file_store, i, wf, html, responses

vars == <<fs, recursive, pc, stack, file_store, i, wf, html, responses>>

(***************************************************************************)
(* Bounds of the model.                                                    *)
(***************************************************************************)
\* Symbolic links the platform follows while resolving one path before it
\* gives up with ELOOP (40 on Linux), scaled down.
SymloopMax == 2
\* Longest file content, in bytes.
MaxLen == 2
\* Requests served one after the other.
MaxRequests == 2

(***************************************************************************)
(* Characters, names, paths.                                               *)
(***************************************************************************)
\* Code points of the characters in use (str comparison is by code point).
Ord(c) ==
    CASE c = "\"" -> 34
      [] c = "&" -> 38
      [] c = "." -> 46
      [] c = "/" -> 47
      [] c = ";" -> 59
      [] c = "<" -> 60
      [] c = ">" -> 62
      [] c = "a" -> 97
      [] c = "b" -> 98
      [] c = "d" -> 100
      [] c = "g" -> 103
      [] c = "l" -> 108
      [] c = "m" -> 109
      [] c = "o" -> 111
      [] c = "p" -> 112
      [] c = "q" -> 113
      [] c = "s" -> 115
      [] c = "t" -> 116
      [] c = "u" -> 117

NameA == <<"a">>
NameADot == <<"a", ".">>
NameB == <<"b">>
NameL == <<"l">>
NameS == <<"s">>

\* scan_dir = pathlib.Path(args.directory)
scan_dir == << <<"d">> >>

(***************************************************************************)
(* The filesystem the process runs on.  Nodes are the real objects;        *)
(* Children is the directory layout, with a node of kind "absent" left     *)
(* out.  "o1" and "o2" lie outside scan_dir.                               *)
(***************************************************************************)
Nodes == {"root", "n1", "n2", "n3", "n4", "n5", "o1", "o2"}

Kinds == {"file", "dir", "link", "other", "absent"}

Children(n) ==
    CASE n = "root" -> {<<NameA, "n1">>, <<NameADot, "n2">>, <<NameL, "n3">>}
      [] n = "n1" -> {<<NameB, "n4">>, <<NameL, "n5">>}
      [] n = "o1" -> {<<NameS, "o2">>}
      [] OTHER -> {}

\* The directory entries of node n that exist.
Entries(n) == {e \in Children(n) : fs.kind[e[2]] # "absent"}

Lookup(n, name) ==
    IF \E e \in Entries(n) : e[1] = name
    THEN (CHOOSE e \in Entries(n) : e[1] = name)[2]
    ELSE "none"

\* Path resolution as stat(2) does it: symbolic links are followed, the
\* last component included, and the resolution gives up with ELOOP once
\* more than SymloopMax links were followed.
RECURSIVE Walk(_, _, _)
Walk(node, rest, links) ==
    IF rest = <<>> THEN [err |-> "", node |-> node]
    ELSE IF fs.kind[node] # "dir" THEN [err |-> "ENOTDIR", node |-> "none"]
    ELSE LET child == Lookup(node, Head(rest)) IN
         IF child = "none" THEN [err |-> "ENOENT", node |-> "none"]
         ELSE IF fs.kind[child] = "link"
         THEN IF links + 1 > SymloopMax THEN [err |-> "ELOOP", node |-> "none"]
              ELSE IF fs.target[child] = "none"
              THEN [err |-> "ENOENT", node |-> "none"]
              ELSE Walk(fs.target[child], Tail(rest), links + 1)
         ELSE Walk(child, Tail(rest), links)

\* os.stat of a path below scan_dir.
Stat(path) ==
    IF fs.kind["root"] = "absent" THEN [err |-> "ENOENT", node |-> "none"]
    ELSE Walk("root", SubSeq(path, Len(scan_dir) + 1, Len(path)), 0)

\* pathlib.Path.is_file / is_dir: False when stat fails with ENOENT,
\* ENOTDIR or ELOOP.
is_file(path) == Stat(path).err = "" /\ fs.kind[Stat(path).node] = "file"

is_dir(path) == Stat(path).err = "" /\ fs.kind[Stat(path).node] = "dir"

\* The names directory.iterdir() yields, in no particular order.
iterdir(path) == {e[1] : e \in Entries(Stat(path).node)}

\* os.listdir of a directory the process may not read raises PermissionError.
ListingDenied(path) == Stat(path).node \in fs.locked

(***************************************************************************)
(* pathlib: str(path), relative_to, and the order of paths.                *)
(***************************************************************************)
\* str(path): the components joined by "/".
RECURSIVE Str(_)
Str(parts) ==
    IF parts = <<>> THEN <<".">>
    ELSE IF Len(parts) = 1 THEN parts[1]
    ELSE parts[1] \o <<"/">> \o Str(Tail(parts))

\* path.relative_to(base), for a path below base.
relative_to(path, base) == SubSeq(path, Len(base) + 1, Len(path))

\* str.__lt__: the first differing character decides, by code point; a
\* proper prefix is smaller.
StrLess(a, b) ==
    \E k \in 1..Len(b) :
        /\ Len(a) >= k - 1
        /\ SubSeq(a, 1, k - 1) = SubSeq(b, 1, k - 1)
        /\ \/ Len(a) = k - 1
           \/ Len(a) >= k /\ Ord(a[k]) < Ord(b[k])

\* PurePath.__lt__: the lists of components are compared, component by
\* component.
PathLess(p, q) ==
    \E k \in 1..Len(q) :
        /\ Len(p) >= k - 1
        /\ SubSeq(p, 1, k - 1) = SubSeq(q, 1, k - 1)
        /\ \/ Len(p) = k - 1
           \/ Len(p) >= k /\ StrLess(p[k], q[k])

\* x put into the sorted list t, after the elements it is not smaller than.
Insert(t, x) ==
    LET before == {k \in 1..Len(t) : PathLess(x, t[k])}
        at == IF before = {} THEN Len(t) + 1
              ELSE CHOOSE k \in before : \A m \in before : k <= m
    IN SubSeq(t, 1, at - 1) \o <<x>> \o SubSeq(t, at, Len(t))

\* The list as read_files returned it.
unsorted(s) == s

\* The descending order.
RECURSIVE sorted_reverse(_)
sorted_reverse(s) ==
    IF s = <<>> THEN <<>>
    ELSE LET t == sorted_reverse(SubSeq(s, 1, Len(s) - 1))
             x == s[Len(s)]
             before == {k \in 1..Len(t) : PathLess(t[k], x)}
             at == IF before = {} THEN Len(t) + 1
                   ELSE CHOOSE k \in before : \A m \in before : k <= m
         IN SubSeq(t, 1, at - 1) \o <<x>> \o SubSeq(t, at, Len(t))

\* sorted(file_store), line 199.
RECURSIVE sorted(_)
sorted(s) ==
    IF s = <<>> THEN <<>>
    ELSE Insert(sorted(SubSeq(s, 1, Len(s) - 1)), s[Len(s)])

(***************************************************************************)
(* The markup of the page.                                                 *)
(***************************************************************************)
HTML_HEAD == <<"<!DOCTYPE html><html lang=\"en\"><head>...</head><body class=\"bg-secondary-subtle\"><nav>...</nav>">>

HTML_FOOT == <<"<script>...</script></body></html>">>

\* The list without its last entry.
VIDEO_MIME_TYPES_short == {"video/mp4", "video/webm"}

VIDEO_MIME_TYPES == {"video/mp4", "video/webm", "video/ogg"}

IMAGE_MIME_TYPES ==
    {"image/jpeg", "image/png", "image/gif", "image/svg+xml", "image/webp",
     "image/bmp", "image/x-icon", "image/tiff", "image/jp2"}

A_OPEN == "<a class=\"link-primary\" href=\""
A_MID == "\" target=\"_blank\">"
A_CLOSE == "</a>"
SUB_OPEN == " <sub>("
SUB_CLOSE == ")</sub>"
CARD_OPEN == "<div class=\"card bg-primary-subtle\" style=\"width:90%; margin:0 auto;\">"
CARD_BODY_OPEN == "<div class=\"card-body\">"
CARD_CLOSE == "</div></div><br/>"
BUTTON == " <button class=\"collapsible btn btn-secondary btn-sm\">Open</button>"
CONTENT_OPEN == "<div class=\"content\">"
DIV_CLOSE == "</div>"
SCROLL_BOX_OPEN == "<div class=\"scroll-box\">"
IMG_OPEN == "<img src=\""
IMG_CLOSE == "\" alt=\"Image Description\">"
VIDEO_OPEN == "<video controls>"
SOURCE_OPEN == "<source src=\""
SOURCE_MID == "\" type=\""
SOURCE_CLOSE == "\">"
VIDEO_CLOSE == "</video>"

get_html_link(file_path, file_type) ==
    <<A_OPEN>> \o Str(file_path) \o <<A_MID>> \o Str(file_path) \o <<A_CLOSE>>
        \o <<SUB_OPEN, file_type, SUB_CLOSE>>

get_html_text_plain(text) == <<SCROLL_BOX_OPEN>> \o text \o <<DIV_CLOSE>>

get_html_image(file_path) == <<IMG_OPEN>> \o Str(file_path) \o <<IMG_CLOSE>>

get_html_video(file_path, video_type) ==
    <<VIDEO_OPEN>>
        \o (<<SOURCE_OPEN>> \o Str(file_path) \o <<SOURCE_MID, video_type, SOURCE_CLOSE>>)
        \o <<VIDEO_CLOSE>>

(***************************************************************************)
(* Reading a file as UTF-8 text.  Contents are bytes; the bytes below 128  *)
(* are the characters of the same code point and 255 starts no UTF-8       *)
(* sequence.                                                                *)
(***************************************************************************)
Bytes == {38, 60, 97, 255}

Chr(b) == CASE b = 38 -> "&" [] b = 60 -> "<" [] b = 97 -> "a" [] OTHER -> "?"

\* f.read() under encoding='utf-8': the text, or UnicodeDecodeError.
Decode(bytes) ==
    [ok |-> \A k \in 1..Len(bytes) : bytes[k] < 128,
     text |-> [k \in 1..Len(bytes) |-> Chr(bytes[k])]]

(***************************************************************************)
(* class WebFile.                                                          *)
(***************************************************************************)
\* The preview is None (here the empty text) unless a branch sets it.
None == <<>>

\* WebFile.__init__
WebFile(path) ==
    [file_path |-> path,
     file_rel_path |-> relative_to(path, scan_dir),
     file_type |-> "None",
     html |-> None]

NoFile == [file_path |-> <<>>, file_rel_path |-> <<>>, file_type |-> "None", html |-> None]

\* mime.from_file raises for a file it cannot open.
MagicRaises(path) == Stat(path).node \in fs.unreadable

\* mime.from_file(self.file_path)
from_file(path) == fs.mime[Stat(path).node]

\* The file read with errors='replace': a character stands for a bad byte.
TextPreviewReplace(path) ==
    get_html_text_plain(Decode(fs.bytes[Stat(path).node]).text)

\* case 'text/plain': the text read as UTF-8, or no preview when that
\* raises UnicodeDecodeError.
TextPreview(path) ==
    LET d == Decode(fs.bytes[Stat(path).node])
    IN IF d.ok THEN get_html_text_plain(d.text) ELSE None

\* The match statement in generate_html.
Preview(w, file_type) ==
    IF file_type = "text/plain" THEN TextPreview(w.file_path)
    ELSE IF file_type \in VIDEO_MIME_TYPES
    THEN get_html_video(w.file_rel_path, file_type)
    ELSE IF file_type \in IMAGE_MIME_TYPES
    THEN get_html_image(w.file_rel_path)
    ELSE None

\* The card left out when there is no preview.
CardIfPreview(w, file_type, preview) ==
    IF preview # None
    THEN <<CARD_OPEN, CARD_BODY_OPEN>>
            \o get_html_link(w.file_rel_path, file_type)
            \o <<BUTTON, CONTENT_OPEN>> \o preview \o <<DIV_CLOSE>>
            \o <<CARD_CLOSE>>
    ELSE <<>>

\* The card generate_html builds around the link and the preview.
Card(w, file_type, preview) ==
    <<CARD_OPEN, CARD_BODY_OPEN>>
        \o get_html_link(w.file_rel_path, file_type)
        \o (IF preview # None
            THEN <<BUTTON, CONTENT_OPEN>> \o preview \o <<DIV_CLOSE>>
            ELSE <<>>)
        \o <<CARD_CLOSE>>

\* WebFile.generate_html, for a call that does not raise.
generate_html(w) ==
    LET t == from_file(w.file_path)
    IN [w EXCEPT !.file_type = t, !.html = Card(w, t, Preview(w, t))]

\* WebFile.get_html
get_html(w) == w.html

(***************************************************************************)
(* The request handler: index and the recursion of read_files.  A frame of *)
(* stack is one activation of read_files: its directory, the names its     *)
(* loop has not reached yet, and its objects.                              *)
(***************************************************************************)
\* A depth the recursion stays below on every tree of the model, the link
\* limit being what it is: the guard on it never holds a step back (DepthInv).
MaxDepth == 2 * SymloopMax + 3

Frame(directory) == [directory |-> directory, todo |-> iterdir(directory), objects |-> <<>>]

Top == stack[Len(stack)]

\* An exception leaves index: the request fails and the server goes on.
Raise(error) ==
    /\ pc' = "idle"
    /\ stack' = <<>>
    /\ file_store' = <<>>
    /\ i' = 0
    /\ wf' = NoFile
    /\ html' = <<>>
    /\ responses' = Append(responses, [status |-> 500, error |-> error, body |-> <<>>])

\* index is entered and calls read_files(scan_dir, args.recursive).
index_call ==
    /\ pc = "idle"
    /\ Len(responses) < MaxRequests
    /\ IF ~is_dir(scan_dir) THEN Raise("TypeError")
       ELSE IF ListingDenied(scan_dir) THEN Raise("PermissionError")
       ELSE /\ pc' = "scan"
            /\ stack' = <<Frame(scan_dir)>>
            /\ UNCHANGED <<file_store, i, wf, html, responses>>
    /\ UNCHANGED <<fs, recursive>>

\* One turn of the loop of read_files, on an entry that is a file.
read_files_file ==
    /\ pc = "scan"
    /\ \E name \in Top.todo :
         LET file == Top.directory \o <<name>> IN
         /\ is_file(file)
         /\ stack' = [stack EXCEPT ![Len(stack)] =
                [@ EXCEPT !.todo = @ \ {name}, !.objects = Append(@, file)]]
    /\ UNCHANGED <<fs, recursive, pc, file_store, i, wf, html, responses>>

\* The recursive call given the directory being scanned instead of the entry.
DescendSame(file, name) ==
    /\ stack' = Append([stack EXCEPT ![Len(stack)].todo = @ \ {name}], Frame(Top.directory))
    /\ UNCHANGED <<pc, file_store, i, wf, html, responses>>

\* The recursive call of read_files on a directory.
Descend(file, name) ==
    IF ListingDenied(file) THEN Raise("PermissionError")
    ELSE /\ stack' = Append([stack EXCEPT ![Len(stack)].todo = @ \ {name}], Frame(file))
         /\ UNCHANGED <<pc, file_store, i, wf, html, responses>>

\* read_files without the test of recursive: every directory is descended.
read_files_dir_always ==
    /\ pc = "scan"
    /\ Len(stack) < MaxDepth
    /\ \E name \in Top.todo :
         LET file == Top.directory \o <<name>> IN
         /\ ~is_file(file)
         /\ is_dir(file)
         /\ Descend(file, name)
    /\ UNCHANGED <<fs, recursive>>

\* One turn of the loop, on an entry that is a directory.
read_files_dir ==
    /\ pc = "scan"
    /\ Len(stack) < MaxDepth
    /\ \E name \in Top.todo :
         LET file == Top.directory \o <<name>> IN
         /\ ~is_file(file)
         /\ is_dir(file)
         /\ IF recursive THEN Descend(file, name)
            ELSE /\ stack' = [stack EXCEPT ![Len(stack)].todo = @ \ {name}]
                 /\ UNCHANGED <<pc, file_store, i, wf, html, responses>>
    /\ UNCHANGED <<fs, recursive>>

\* One turn of the loop, on an entry that is neither.
read_files_other ==
    /\ pc = "scan"
    /\ \E name \in Top.todo :
         LET file == Top.directory \o <<name>> IN
         /\ ~is_file(file)
         /\ ~is_dir(file)
         /\ stack' = [stack EXCEPT ![Len(stack)].todo = @ \ {name}]
    /\ UNCHANGED <<fs, recursive, pc, file_store, i, wf, html, responses>>

\* read_files returns its objects: to the activation that called it, which
\* extends its own objects, or to index, which starts the page.
read_files_return ==
    /\ pc = "scan"
    /\ Top.todo = {}
    /\ IF Len(stack) > 1
       THEN /\ stack' = [SubSeq(stack, 1, Len(stack) - 1)
                            EXCEPT ![Len(stack) - 1].objects = @ \o Top.objects]
            /\ UNCHANGED <<pc, file_store, i, html>>
       ELSE /\ stack' = <<>>
            /\ file_store' = Top.objects
            /\ html' = HTML_HEAD
            /\ i' = 1
            /\ pc' = "render"
    /\ UNCHANGED <<fs, recursive, wf, responses>>

\* One turn of the loop of index over sorted(file_store).
index_file ==
    /\ pc = "render"
    /\ i <= Len(file_store)
    /\ LET fil == sorted(file_store)[i] IN
       IF MagicRaises(fil) THEN Raise("MagicException")
       ELSE /\ wf' = generate_html(WebFile(fil))
            /\ html' = html \o get_html(wf')
            /\ i' = i + 1
            /\ UNCHANGED <<pc, stack, file_store, responses>>
    /\ UNCHANGED <<fs, recursive>>

\* index returns the page.
index_return ==
    /\ pc = "render"
    /\ i > Len(file_store)
    /\ responses' = Append(responses, [status |-> 200, error |-> "", body |-> html \o HTML_FOOT])
    /\ pc' = "idle"
    /\ stack' = <<>>
    /\ file_store' = <<>>
    /\ i' = 0
    /\ wf' = NoFile
    /\ html' = <<>>
    /\ UNCHANGED <<fs, recursive>>

(***************************************************************************)
(* The filesystems and the start of the process.                           *)
(***************************************************************************)
TextA == [mime |-> "text/plain", bytes |-> <<97>>]

\* What a file can hold in the page builds: markup characters, bytes that
\* are no UTF-8, an image, a type that was not detected.
Profiles ==
    {[mime |-> "text/plain", bytes |-> <<60, 97>>],
     [mime |-> "text/plain", bytes |-> <<255>>],
     [mime |-> "image/png", bytes |-> <<255>>],
     [mime |-> "", bytes |-> <<>>]}

MkFs(kroot, k1, k2, k3, k5, locked, unreadable, p2, p4) ==
    [kind |-> [n \in Nodes |->
                 CASE n = "root" -> kroot
                   [] n = "n1" -> k1
                   [] n = "n2" -> k2
                   [] n = "n3" -> k3.kind
                   [] n = "n4" -> IF k1 = "dir" THEN "file" ELSE "absent"
                   [] n = "n5" -> IF k1 = "dir" THEN k5.kind ELSE "absent"
                   [] n = "o1" -> "dir"
                   [] n = "o2" -> "file"],
     target |-> [n \in Nodes |->
                 CASE n = "n3" -> k3.target
                   [] n = "n5" -> k5.target
                   [] OTHER -> "none"],
     locked |-> locked,
     unreadable |-> unreadable,
     mime |-> [n \in Nodes |->
                 CASE n = "n2" -> p2.mime
                   [] n = "n4" -> p4.mime
                   [] n = "n1" -> "video/mp4"
                   [] OTHER -> TextA.mime],
     bytes |-> [n \in Nodes |->
                 CASE n = "n2" -> p2.bytes
                   [] n = "n4" -> p4.bytes
                   [] OTHER -> TextA.bytes]]

Plain(k) == [kind |-> k, target |-> "none"]

LinkTo(t) == [kind |-> "link", target |-> t]

\* The trees of the page builds: files beside and below a directory,
\* special files, dangling links, a link to a file outside scan_dir, a
\* directory that cannot be listed, a file that cannot be opened.
FsIndex ==
    {MkFs("dir", k1, k2, k3, k5, locked, unreadable, p2, p4) :
        k1 \in {"dir", "file"}, k2 \in {"file", "absent"},
        k3 \in {Plain("absent"), Plain("other"), LinkTo("o2"), LinkTo("none")},
        k5 \in {Plain("absent"), Plain("file")},
        locked \in {{}, {"n1"}}, unreadable \in {{}, {"n2"}},
        p2 \in Profiles, p4 \in Profiles}
    \cup {MkFs(kroot, "file", "file", Plain("absent"), Plain("absent"), {}, {}, TextA, TextA) :
        kroot \in {"file", "absent"}}

Idle ==
    /\ pc = "idle"
    /\ stack = <<>>
    /\ file_store = <<>>
    /\ i = 0
    /\ wf = NoFile
    /\ html = <<>>
    /\ responses = <<>>

\* The server is up and no request was served yet.
Init ==
    /\ fs \in FsIndex
    /\ recursive \in BOOLEAN
    /\ Idle

Next ==
    \/ index_call
    \/ read_files_file
    \/ read_files_dir
    \/ read_files_other
    \/ read_files_return
    \/ index_file
    \/ index_return

Spec == Init /\ [][Next]_vars

(***************************************************************************)
(* The scan alone, on trees with links to directories: to an ancestor (a   *)
(* cycle), to a sibling, out of scan_dir.                                  *)
(***************************************************************************)
FsScanAll ==
    {MkFs("dir", k1, k2, k3, k5, locked, {}, TextA, TextA) :
        k1 \in {"dir", "file", "other"}, k2 \in {"file", "absent"},
        k3 \in {Plain("absent"), Plain("file"), LinkTo("root"), LinkTo("n1"),
                LinkTo("o1"), LinkTo("o2"), LinkTo("none")},
        k5 \in {Plain("absent"), Plain("file"), LinkTo("root"), LinkTo("n1"),
                LinkTo("o1")},
        locked \in {{}, {"o1"}}}

\* At most one link per tree, and an unlistable directory only where a link
\* leads to it.
FsScan ==
    {f \in FsScanAll :
        /\ f.kind["n3"] # "link" \/ f.kind["n5"] # "link"
        /\ f.locked = {} \/ \E n \in {"n3", "n5"} :
                                f.kind[n] = "link" /\ f.target[n] = "o1"}

InitScan ==
    /\ fs \in FsScan
    /\ recursive \in BOOLEAN
    /\ Idle

NextScan ==
    \/ index_call
    \/ read_files_file
    \/ read_files_dir
    \/ read_files_other
    \/ read_files_return

SpecScan == InitScan /\ [][NextScan]_vars

\* The recursive scan on the trees that hold a link back to an ancestor.
InitCycle ==
    /\ fs \in {f \in FsScan :
                 /\ f.kind["n1"] = "dir"
                 /\ f.kind["n2"] = "absent"
                 /\ f.kind["n3"] \in {"link", "absent"}
                 /\ f.kind["n5"] \in {"link", "absent"}
                 /\ f.locked = {}
                 /\ \/ f.kind["n3"] = "link" /\ f.target["n3"] = "root"
                    \/ f.kind["n5"] = "link" /\ f.target["n5"] \in {"root", "n1"}}
    /\ recursive = TRUE
    /\ Idle

\* A request that is being served is served on: the handler runs to its end.
SpecCycle == InitCycle /\ [][NextScan]_vars /\ WF_vars(NextScan)

(***************************************************************************)
(* The rendering alone: index from the return of read_files on, over one   *)
(* file of every type and content.                                         *)
(***************************************************************************)
TypeStrings ==
    {"video/mp4", "video/webm", "video/ogg",
     "image/jpeg", "image/png", "image/gif", "image/svg+xml", "image/webp",
     "image/bmp", "image/x-icon", "image/tiff", "image/jp2",
     "text/plain", "", "application/pdf", "inode/x-empty",
     "video/x-matroska", "image/avif", "text/html"}

RECURSIVE SeqsUpTo(_, _)
SeqsUpTo(S, n) ==
    IF n = 0 THEN {<<>>}
    ELSE LET shorter == SeqsUpTo(S, n - 1)
         IN shorter \cup {Append(t, x) : t \in shorter, x \in S}

FsRender ==
    {MkFs("dir", k1, "file", Plain("absent"), Plain("absent"), {}, unreadable, p, p) :
        k1 \in {"dir", "absent"},
        unreadable \in {{}, {"n2"}},
        p \in [mime : TypeStrings, bytes : SeqsUpTo(Bytes, MaxLen)]}

\* The files read_files returns on the trees of FsRender.
Scanned == {scan_dir \o <<NameADot>>} \cup
           (IF fs.kind["n1"] = "dir" THEN {scan_dir \o <<NameA, NameB>>} ELSE {})

InitRender ==
    /\ fs \in FsRender
    /\ recursive = TRUE
    /\ pc = "render"
    /\ stack = <<>>
    /\ file_store \in {s \in SeqsUpTo(Scanned, 2) :
                          Len(s) = Cardinality(Scanned) /\ {s[k] : k \in 1..Len(s)} = Scanned}
    /\ i = 1
    /\ wf = NoFile
    /\ html = HTML_HEAD
    /\ responses = <<>>

NextRender ==
    \/ index_file
    \/ index_return

SpecRender == InitRender /\ [][NextRender]_vars

(***************************************************************************)
(* Properties of the scan.                                                 *)
(***************************************************************************)
Names == {NameA, NameADot, NameB, NameL, NameS}

Range(s) == {s[k] : k \in 1..Len(s)}

\* The directories of level and, for k levels more, the directories among
\* their entries.
RECURSIVE DirsFrom(_, _)
DirsFrom(level, k) ==
    IF k = 0 \/ level = {} THEN level
    ELSE level \cup
         DirsFrom({d \in {p \o <<n>> : p \in level, n \in Names} : is_dir(d)}, k - 1)

\* scan_dir and the directories reached from it through directories.
AllDirs == DirsFrom({scan_dir}, MaxDepth)

\* The files below scan_dir: its immediate children, or the files of every
\* directory that is reached through directories.
ExpectedFiles ==
    {f \in {p \o <<n>> : p \in (IF recursive THEN AllDirs ELSE {scan_dir}), n \in Names} :
        is_file(f)}

\* C1: what read_files(scan_dir, recursive) returns is exactly the files that
\* are immediate children of scan_dir when recursive is false, and exactly
\* the files reached by descending through the directories when it is true,
\* every path once.
C1_ReadFilesExact ==
    pc = "render" =>
        /\ Range(file_store) = ExpectedFiles
        /\ Len(file_store) = Cardinality(ExpectedFiles)

\* A recursive scan returned files of two directories and files of scan_dir.
C1_Witness ==
    /\ pc = "render"
    /\ recursive
    /\ Len(file_store) >= 3
    /\ \E p \in Range(file_store) : Len(p) = Len(scan_dir) + 1
    /\ \E p \in Range(file_store) : Len(p) = Len(scan_dir) + 2

\* A link below scan_dir that leads back to a directory it lies in.
Cyclic ==
    \/ fs.kind["n3"] = "link" /\ fs.target["n3"] = "root"
    \/ fs.kind["n5"] = "link" /\ fs.target["n5"] \in {"root", "n1"}

\* C2: a recursive scan of a tree with a link back to one of its own
\* ancestors comes to an end: read_files returns (or raises), it does not
\* recurse forever.
C2_CyclicScanTerminates ==
    (pc = "scan" /\ recursive /\ Cyclic) ~> (pc # "scan")

\* A recursive scan of a tree with a cycle has returned, with a file it
\* reached through the link.
C2_Witness ==
    /\ pc = "render"
    /\ recursive
    /\ Cyclic
    /\ \E p \in Range(file_store) : Len(p) >= Len(scan_dir) + 3

\* The recursion never comes near the depth the model allows.
DepthInv == Len(stack) < MaxDepth

(***************************************************************************)
(* Reading a page back: its cards, and the targets of its links.           *)
(***************************************************************************)
\* The text from position k + 1 of h up to the next token stop.
UpTo(h, k, stop) ==
    LET m == CHOOSE m \in k + 1..Len(h) :
                 h[m] = stop /\ \A j \in k + 1..m - 1 : h[j] # stop
    IN SubSeq(h, k + 1, m - 1)

\* The href of every link of the page, in the order of the page.
RECURSIVE HrefsFrom(_, _)
HrefsFrom(h, k) ==
    IF k > Len(h) THEN <<>>
    ELSE IF h[k] = A_OPEN THEN <<UpTo(h, k, A_MID)>> \o HrefsFrom(h, k + 1)
    ELSE HrefsFrom(h, k + 1)

Hrefs(h) == HrefsFrom(h, 1)

\* The components of a path given as text.
RECURSIVE ParsePath(_)
ParsePath(text) ==
    IF \A k \in 1..Len(text) : text[k] # "/" THEN <<text>>
    ELSE LET k == CHOOSE k \in 1..Len(text) :
                     text[k] = "/" /\ \A j \in 1..k - 1 : text[j] # "/"
         IN <<SubSeq(text, 1, k - 1)>> \o ParsePath(SubSeq(text, k + 1, Len(text)))

Count(h, token) == Cardinality({k \in 1..Len(h) : h[k] = token})

\* The tokens part stand in h from position k on.
OccursAt(h, k, part) ==
    k + Len(part) - 1 <= Len(h) /\ SubSeq(h, k, k + Len(part) - 1) = part

Occurrences(h, part) == Cardinality({k \in 1..Len(h) : OccursAt(h, k, part)})

\* The pages index has returned.
Pages == {responses[k].body : k \in {j \in 1..Len(responses) : responses[j].status = 200}}

(***************************************************************************)
(* Properties of the page build.                                           *)
(***************************************************************************)
\* C3: a page build fails only when scan_dir is not an existing directory;
\* no other error (a directory that cannot be listed, a file whose type
\* detection fails) makes the build fail.
C3_OnlyRootAborts ==
    \A k \in 1..Len(responses) : responses[k].status = 500 => ~is_dir(scan_dir)

\* The objects that lie below scan_dir.
Inside == {"n1", "n2", "n3", "n4", "n5"}

\* C5: the target of every link of a page resolves to an object strictly
\* inside scan_dir.
C5_LinksInsideRoot ==
    \A h \in Pages : \A k \in 1..Len(Hrefs(h)) :
        LET st == Stat(scan_dir \o ParsePath(Hrefs(h)[k]))
        IN st.err = "" /\ st.node \in Inside

\* The absolute path of a link target, as text.
AbsText(href) == Str(scan_dir) \o <<"/">> \o href

\* C6 as claimed: the cards of a page are in ascending lexicographic order
\* of the texts of the files' absolute paths.
C6_StringOrder ==
    \A h \in Pages : \A j, k \in 1..Len(Hrefs(h)) :
        j < k => StrLess(AbsText(Hrefs(h)[j]), AbsText(Hrefs(h)[k]))

\* C6 as amended: the cards of a page are in ascending order of the files'
\* absolute paths compared component by component, each component as text.
C6_ComponentOrder ==
    \A h \in Pages : \A j, k \in 1..Len(Hrefs(h)) :
        j < k => PathLess(scan_dir \o ParsePath(Hrefs(h)[j]),
                          scan_dir \o ParsePath(Hrefs(h)[k]))

\* A page lists a/b before a. : the two orders differ on it.
C6_Witness ==
    \E h \in Pages : \E j, k \in 1..Len(Hrefs(h)) :
        /\ j < k
        /\ Hrefs(h)[j] = Str(<<NameA, NameB>>)
        /\ Hrefs(h)[k] = Str(<<NameADot>>)

\* scan_dir holds regular files only.
FlatFiles == \A e \in Entries("root") : fs.kind[e[2]] = "file"

\* The markup of a link to file with the type label.
LinkMarkup(file, type) ==
    <<A_OPEN>> \o Str(file) \o <<A_MID>> \o Str(file) \o <<A_CLOSE, SUB_OPEN, type, SUB_CLOSE>>

\* C8: the page of a directory of regular files holds one card per file, and
\* every file's card holds the link to its relative path with its type label.
C8_OneCardPerFile ==
    \A h \in Pages :
        FlatFiles =>
            /\ Count(h, CARD_OPEN) = Cardinality(Entries("root"))
            /\ Count(h, CARD_CLOSE) = Cardinality(Entries("root"))
            /\ \A e \in Entries("root") :
                 Occurrences(h, <<CARD_OPEN, CARD_BODY_OPEN>>
                                   \o LinkMarkup(<<e[1]>>, fs.mime[e[2]])) = 1

\* A page of a directory of two regular files, one with a preview and one
\* without.
C8_Witness ==
    \E h \in Pages :
        /\ FlatFiles
        /\ Count(h, CARD_OPEN) = 2
        /\ Count(h, BUTTON) = 1

\* C9: the builds of an unmodified tree return the same output, whatever
\* the order the directories were listed in.
C9_SameOutput ==
    \A j, k \in 1..Len(responses) :
        /\ responses[j].status = responses[k].status
        /\ responses[j].body = responses[k].body

\* Two pages of three cards or more were built.
C9_Witness ==
    /\ Len(responses) >= 2
    /\ \A k \in 1..Len(responses) :
         responses[k].status = 200 /\ Count(responses[k].body, CARD_OPEN) >= 3

(***************************************************************************)
(* Properties of a card.                                                   *)
(***************************************************************************)
\* The text of the file of w, read as UTF-8.
TextOf(w) == Decode(fs.bytes[Stat(w.file_path).node])

\* What stands in the scroll box of a card.
ScrollBoxText(h) ==
    UpTo(h, CHOOSE k \in 1..Len(h) : h[k] = SCROLL_BOX_OPEN, DIV_CLOSE)

Entities ==
    {<<"&", "l", "t", ";">>, <<"&", "g", "t", ";">>, <<"&", "a", "m", "p", ";">>,
     <<"&", "q", "u", "o", "t", ";">>}

EntityChar(e) ==
    CASE e = <<"&", "l", "t", ";">> -> "<"
      [] e = <<"&", "g", "t", ";">> -> ">"
      [] e = <<"&", "a", "m", "p", ";">> -> "&"
      [] e = <<"&", "q", "u", "o", "t", ";">> -> "\""

\* The text a browser shows for the escaped text.
RECURSIVE Unescape(_)
Unescape(text) ==
    IF text = <<>> THEN <<>>
    ELSE IF \E e \in Entities : OccursAt(text, 1, e)
    THEN LET e == CHOOSE e \in Entities : OccursAt(text, 1, e)
         IN <<EntityChar(e)>> \o Unescape(SubSeq(text, Len(e) + 1, Len(text)))
    ELSE <<Head(text)>> \o Unescape(Tail(text))

\* No character of the text opens a tag, closes one, ends an attribute or
\* starts anything but an entity.
NoLiveMarkup(text) ==
    \A k \in 1..Len(text) :
        /\ text[k] \notin {"<", ">", "\""}
        /\ text[k] = "&" => \E e \in Entities : OccursAt(text, k, e)

\* C4: the preview of a text/plain file of valid UTF-8 holds the text
\* escaped: no character of it is live markup, and un-escaped it is the
\* text of the file.
C4_TextEscaped ==
    (wf.file_type = "text/plain" /\ TextOf(wf).ok) =>
        /\ NoLiveMarkup(ScrollBoxText(wf.html))
        /\ Unescape(ScrollBoxText(wf.html)) = TextOf(wf).text

\* The card of w with nothing but the link and the type label.
LinkOnlyCard(w) ==
    <<CARD_OPEN, CARD_BODY_OPEN>> \o LinkMarkup(w.file_rel_path, w.file_type)
        \o <<CARD_CLOSE>>

\* The card of w with the link, the type label and a preview block.
PreviewCard(w, preview) ==
    <<CARD_OPEN, CARD_BODY_OPEN>> \o LinkMarkup(w.file_rel_path, w.file_type)
        \o <<BUTTON, CONTENT_OPEN>> \o preview \o <<DIV_CLOSE, CARD_CLOSE>>

\* A file of the tree is text/plain and no valid UTF-8.
Undecodable(n) ==
    /\ fs.kind[n] = "file"
    /\ fs.mime[n] = "text/plain"
    /\ ~Decode(fs.bytes[n]).ok

\* C7: a text/plain file that is no valid UTF-8 gets a card with the link
\* and the type label and no preview block, and does not make the build
\* fail: with every file readable by the type detection, the page is
\* returned.
C7_UndecodableText ==
    /\ (wf.file_type = "text/plain" /\ ~TextOf(wf).ok) =>
          /\ wf.html = LinkOnlyCard(wf)
          /\ Count(wf.html, BUTTON) = 0
          /\ Count(wf.html, CONTENT_OPEN) = 0
    /\ fs.unreadable = {} =>
          \A k \in 1..Len(responses) : responses[k].status = 200

\* A page of two cards was returned for a tree with an undecodable text file.
C7_Witness ==
    /\ \E n \in {"n2", "n4"} : Undecodable(n)
    /\ \E h \in Pages : Count(h, CARD_OPEN) = 2 /\ Count(h, BUTTON) = 0

\* C10: the type alone decides the preview: a video type gives the video
\* markup with the relative path as source and the type as hint, an image
\* type gives the image markup with the relative path as source, and any
\* other type but text/plain gives no preview block.
C10_PreviewByType ==
    wf # NoFile =>
        /\ wf.file_type \in {"video/mp4", "video/webm", "video/ogg"} =>
             wf.html = PreviewCard(wf,
                <<VIDEO_OPEN, SOURCE_OPEN>> \o Str(wf.file_rel_path)
                    \o <<SOURCE_MID, wf.file_type, SOURCE_CLOSE, VIDEO_CLOSE>>)
        /\ wf.file_type \in {"image/jpeg", "image/png", "image/gif", "image/svg+xml",
                             "image/webp", "image/bmp", "image/x-icon", "image/tiff",
                             "image/jp2"} =>
             wf.html = PreviewCard(wf,
                <<IMG_OPEN>> \o Str(wf.file_rel_path) \o <<IMG_CLOSE>>)
        /\ wf.file_type \notin
                {"video/mp4", "video/webm", "video/ogg", "image/jpeg", "image/png",
                 "image/gif", "image/svg+xml", "image/webp", "image/bmp",
                 "image/x-icon", "image/tiff", "image/jp2", "text/plain"} =>
             wf.html = LinkOnlyCard(wf)

\* A card of each kind was built: a video, an image, an undetected type.
C10_Witness ==
    /\ wf.file_type = "video/ogg"
    /\ Count(wf.html, VIDEO_OPEN) = 1
    /\ Len(wf.file_rel_path) = 2

====
